---- MODULE Spec2Model ----
(***************************************************************************)
(* Snaze: the maze grid (Level), the snake (Snake) and the simulation      *)
(* controller (SnazeSimulation) with its game loop.  One step of the model *)
(* is one iteration of the loop of main(): process_events(); update();     *)
(* render().  The sub-operations are operators on the record of the        *)
(* simulation's fields, composed in the order the code calls them.         *)
(*                                                                         *)
(* Not modelled: fps, dir, next_dir and wall_collision (written, never     *)
(* read by the game logic) and the text written to the terminal.           *)
(***************************************************************************)
EXTENDS Integers, Sequences, FiniteSets, TLC

\* ---------------------------------------------------------------- bounds
MaxFood == 2            \* --food takes the values 1..MaxFood
MaxLives == 1           \* --lives takes the values 1..MaxLives

\* ------------------------------------------------------- program constants
DefaultLives == 5       \* int n_lives = 5
SizeMod == 65536        \* size_t arithmetic is modular; grids have at most
                        \* 100 rows and columns, so 2^16 stands for 2^64

TileTypes == {"EMPTY", "WALL", "INV_WALL", "FOOD", "SNAKE_HEAD", "SNAKE_BODY"}

States == {"START", "WELCOME", "START_SCREEN", "SNAKE_THINKING", "GAME_RUNNING",
           "SNAKE_CRASHED", "LEVEL_UP", "GAME_WON", "GAME_OVER"}

PlayerTypes == {"RANDOM", "BACKTRACKING"}

\* direction: up = 0, right = 1, down = 2, left = 3
Directions == 0..3

drow == <<-1, 0, 1, 0>>
dcol == <<0, 1, 0, -1>>

TilePos(r, c) == [row |-> r, col |-> c]

\* size_t + int: the int is converted to size_t and the sum wraps
SizeAdd(a, d) == (a + d + SizeMod) % SizeMod

move(current_pos, d) ==
    TilePos(SizeAdd(current_pos.row, drow[d + 1]), SizeAdd(current_pos.col, dcol[d + 1]))

\* ------------------------------------------------------------------ Level
n_rows(level) == Len(level.m_maze)

n_cols(level) == Len(level.m_maze[1])

\* m_maze[t_pos.row][t_pos.col]; defined for positions inside the grid only
get_tile_type(level, t_pos) == level.m_maze[t_pos.row + 1][t_pos.col + 1]

set_tile_type(level, t_type, t_pos) ==
    [level EXCEPT !.m_maze[t_pos.row + 1][t_pos.col + 1] = t_type]

get_food_loc(level) == level.m_food_loc

get_spawn_loc(level) == level.m_spawn_loc

\* the cells of the grid in the order of the two nested loops (row-major)
Cells(level) ==
    [k \in 1..(n_rows(level) * n_cols(level)) |->
        TilePos((k - 1) \div n_cols(level), (k - 1) % n_cols(level))]

CellSet(level) == {Cells(level)[k] : k \in DOMAIN Cells(level)}

remove_snake(level) ==
    [level EXCEPT !.m_maze =
        [i \in 1..n_rows(level) |-> [j \in 1..n_cols(level) |->
            IF level.m_maze[i][j] \in {"SNAKE_HEAD", "SNAKE_BODY"}
            THEN "EMPTY" ELSE level.m_maze[i][j]]]]

empty_spaces(level) ==
    SelectSeq(Cells(level), LAMBDA p : get_tile_type(level, p) = "EMPTY")

\* place_food with the draw taken among all the cells, not the empty ones
place_food_any_cell(level, rnd) ==
    LET all == Cells(level)
        loc == all[(rnd % Len(all)) + 1]
    IN  IF empty_spaces(level) = <<>> THEN level
        ELSE set_tile_type([level EXCEPT !.m_food_loc = loc], "FOOD", loc)

\* rnd is the raw output of the generator; dist(gen) maps it into
\* 0 .. vec_empty_spaces.size() - 1
place_food(level, rnd) ==
    LET vec_empty_spaces == empty_spaces(level)
    IN  IF vec_empty_spaces = <<>> THEN level
        ELSE LET loc == vec_empty_spaces[(rnd % Len(vec_empty_spaces)) + 1]
             IN  set_tile_type([level EXCEPT !.m_food_loc = loc], "FOOD", loc)

\* crashed that lets the hidden wall pass
crashed_hidden_open(level, t_pos) ==
    IF t_pos.row >= n_rows(level) \/ t_pos.col >= n_cols(level) THEN TRUE
    ELSE LET t_type == get_tile_type(level, t_pos)
         IN  t_type # "EMPTY" /\ t_type # "FOOD" /\ t_type # "INV_WALL"

crashed(level, t_pos) ==
    IF t_pos.row >= n_rows(level) \/ t_pos.col >= n_cols(level) THEN TRUE
    ELSE LET t_type == get_tile_type(level, t_pos)
         IN  t_type # "EMPTY" /\ t_type # "FOOD"

\* Level::Level: input_maze is a rectangular block of characters
CharTile(ch) ==
    CASE ch = " " -> "EMPTY"
      [] ch = "#" -> "WALL"
      [] ch = "." -> "INV_WALL"
      [] ch = "&" -> "SNAKE_HEAD"
      [] OTHER -> "EMPTY"

LevelCtor(input_maze, rnd) ==
    LET R == Len(input_maze)
        C == Len(input_maze[1])
        maze == [i \in 1..R |-> [j \in 1..C |-> CharTile(input_maze[i][j])]]
        spawns == {p \in {TilePos(i, j) : i \in 0..(R - 1), j \in 0..(C - 1)} :
                        input_maze[p.row + 1][p.col + 1] = "&"}
        \* the loader admits blocks with exactly one '&' only
        spawn == IF spawns = {} THEN TilePos(0, 0) ELSE CHOOSE p \in spawns : TRUE
    IN  place_food([m_maze |-> maze, m_spawn_loc |-> spawn, m_food_loc |-> TilePos(0, 0)], rnd)

\* ------------------------------------------------------------------ Snake
\* The simulation's fields are gathered in a record s; snake_obj.body,
\* snake_obj.found_foods and snake_obj.collision are its body, found_foods and
\* collision fields.  CurLevel is levels[current_level_index].
CurLevel(s) == s.levels[s.current_level_index + 1]

SetCurLevel(s, level) == [s EXCEPT !.levels[s.current_level_index + 1] = level]

InGrid(level, pos) == pos.row < n_rows(level) /\ pos.col < n_cols(level)

\* What get_tile_type reads for is_valid_position: the tile inside the grid;
\* outside it the read is out of the vector's bounds and yields whatever the
\* build produces there (ub), a WALL value or any other, unless the read
\* faults (Faulted, in ThinkTick).
UbReads == {"WALL", "GARBAGE"}

is_valid_position(body, pos, level, ub) ==
    LET t_type == IF InGrid(level, pos) THEN get_tile_type(level, pos) ELSE ub
    IN  IF t_type = "WALL" THEN FALSE
        ELSE \A k \in DOMAIN body : body[k] # pos

\* std::shuffle leaves the four directions in some order, perm.  search_random
\* returns the first valid direction of that order, so the orders that start
\* at each direction in turn yield every result some order can yield.
Perms == {[i \in 1..4 |-> (k + i - 1) % 4] : k \in Directions}

\* std::optional<direction>
nullopt == [has_value |-> FALSE, value |-> 0]

Some(d) == [has_value |-> TRUE, value |-> d]

RECURSIVE search_random_from(_, _, _, _, _, _)
search_random_from(k, body, head_pos, level, perm, ub) ==
    IF k > 4 THEN nullopt
    ELSE IF is_valid_position(body, move(head_pos, perm[k]), level, ub[perm[k]])
         THEN Some(perm[k])
         ELSE search_random_from(k + 1, body, head_pos, level, perm, ub)

search_random(body, head_pos, level, perm, ub) ==
    search_random_from(1, body, head_pos, level, perm, ub)

Snake_init(s, start_pos) == [s EXCEPT !.body = <<start_pos>>]

Snake_reset(s) ==
    LET level == CurLevel(s)
        start_pos == get_spawn_loc(level)
    IN  [SetCurLevel(s, set_tile_type(level, "SNAKE_HEAD", start_pos))
            EXCEPT !.body = <<start_pos>>, !.found_foods = FALSE, !.collision = FALSE]

\* ------------------------------------------------- SnazeSimulation (part 1)
get_states(s) == s.current_state

\* update_score adding 20 per food whatever the count
update_score_flat(s) == [s EXCEPT !.score = @ + 20]

update_score(s) == [s EXCEPT !.score = @ + 20 * s.current_food]

reset_food(s) == [s EXCEPT !.current_food = 0]

\* respawn that leaves the old snake's tiles on the grid
respawn_keeps_tiles(s) ==
    LET s2 == Snake_reset(s)
        spawn == get_spawn_loc(CurLevel(s2))
    IN  [s2 EXCEPT !.collision = FALSE, !.head_pos = spawn, !.next_pos = spawn]

respawn(s) ==
    LET s1 == SetCurLevel(s, remove_snake(CurLevel(s)))
        s2 == Snake_reset(s1)
        spawn == get_spawn_loc(CurLevel(s2))
    IN  [s2 EXCEPT !.collision = FALSE, !.head_pos = spawn, !.next_pos = spawn]

\* level_up without reset_food
level_up_keeps_food(s) ==
    IF s.current_level_index + 1 < Len(s.levels)
    THEN LET s1 == [s EXCEPT !.current_level_index = @ + 1]
             s2 == Snake_reset(s1)
             s4 == respawn(s2)
         IN  [s4 EXCEPT !.current_state = "START_SCREEN"]
    ELSE [s EXCEPT !.current_state = "GAME_WON"]

\* level_up whose test is off by one: the last level is never played
level_up_skips_last(s) ==
    IF s.current_level_index + 2 < Len(s.levels)
    THEN LET s1 == [s EXCEPT !.current_level_index = @ + 1]
             s2 == Snake_reset(s1)
             s3 == reset_food(s2)
             s4 == respawn(s3)
         IN  [s4 EXCEPT !.current_state = "START_SCREEN"]
    ELSE [s EXCEPT !.current_state = "GAME_WON"]

\* level_up leaving the controller in LEVEL_UP
level_up_to_level_up_state(s) ==
    IF s.current_level_index + 1 < Len(s.levels)
    THEN LET s1 == [s EXCEPT !.current_level_index = @ + 1]
             s2 == Snake_reset(s1)
             s3 == reset_food(s2)
             s4 == respawn(s3)
         IN  [s4 EXCEPT !.current_state = "LEVEL_UP"]
    ELSE [s EXCEPT !.current_state = "GAME_WON"]

level_up(s) ==
    IF s.current_level_index + 1 < Len(s.levels)
    THEN LET s1 == [s EXCEPT !.current_level_index = @ + 1]
             s2 == Snake_reset(s1)
             s3 == reset_food(s2)
             s4 == respawn(s3)
         IN  [s4 EXCEPT !.current_state = "START_SCREEN"]
    ELSE [s EXCEPT !.current_state = "GAME_WON"]

\* input_colision ending the game one collision late: lives = 0 still crashes
input_colision_late_game_over(s, food, colision) ==
    IF food = TRUE
    THEN LET s1 == [s EXCEPT !.current_food = @ + 1]
             s2 == update_score(s1)
             s3 == [s2 EXCEPT !.found_foods = FALSE]
         IN  IF s3.current_food = s3.n_food THEN level_up(s3) ELSE s3
    ELSE IF colision = TRUE /\ food = FALSE
    THEN LET s1 == [s EXCEPT !.current_life = @ - 1]
         IN  IF s1.current_life >= 0
             THEN [s1 EXCEPT !.current_state = "SNAKE_CRASHED"]
             ELSE [s1 EXCEPT !.current_state = "GAME_OVER"]
    ELSE s

input_colision(s, food, colision) ==
    IF food = TRUE
    THEN LET s1 == [s EXCEPT !.current_food = @ + 1]
             s2 == update_score(s1)
             s3 == [s2 EXCEPT !.found_foods = FALSE]
         IN  IF s3.current_food = s3.n_food THEN level_up(s3) ELSE s3
    ELSE IF colision = TRUE /\ food = FALSE
    THEN LET s1 == [s EXCEPT !.current_life = @ - 1]
             s2 == IF s1.current_life > 0
                   THEN [s1 EXCEPT !.current_state = "SNAKE_CRASHED"] ELSE s1
         IN  IF s2.current_life = 0
             THEN [s2 EXCEPT !.current_state = "GAME_OVER"] ELSE s2
    ELSE s

\* input is the line read by std::getline
Inputs == {"", "x"}

\* input_process leaving START_SCREEN on any line
input_process_start_any_line(s, input) ==
    IF s.current_state = "START_SCREEN"
    THEN [s EXCEPT !.current_state = "SNAKE_THINKING"]
    ELSE IF s.current_state = "LEVEL_UP" /\ input = ""
    THEN [s EXCEPT !.current_state = "SNAKE_THINKING"]
    ELSE IF s.current_state = "SNAKE_CRASHED" /\ input = ""
    THEN LET s1 == respawn(s)
         IN  IF s1.current_life = 0
             THEN [s1 EXCEPT !.current_state = "GAME_OVER"]
             ELSE [s1 EXCEPT !.current_state = "SNAKE_THINKING"]
    ELSE s

\* input_process respawning on any line
input_process_crashed_any_line(s, input) ==
    IF s.current_state = "START_SCREEN" /\ input = ""
    THEN [s EXCEPT !.current_state = "SNAKE_THINKING"]
    ELSE IF s.current_state = "LEVEL_UP" /\ input = ""
    THEN [s EXCEPT !.current_state = "SNAKE_THINKING"]
    ELSE IF s.current_state = "SNAKE_CRASHED"
    THEN LET s1 == respawn(s)
         IN  IF s1.current_life = 0
             THEN [s1 EXCEPT !.current_state = "GAME_OVER"]
             ELSE [s1 EXCEPT !.current_state = "SNAKE_THINKING"]
    ELSE s

input_process(s, input) ==
    IF s.current_state = "START_SCREEN" /\ input = ""
    THEN [s EXCEPT !.current_state = "SNAKE_THINKING"]
    ELSE IF s.current_state = "LEVEL_UP" /\ input = ""
    THEN [s EXCEPT !.current_state = "SNAKE_THINKING"]
    ELSE IF s.current_state = "SNAKE_CRASHED" /\ input = ""
    THEN LET s1 == respawn(s)
         IN  IF s1.current_life = 0
             THEN [s1 EXCEPT !.current_state = "GAME_OVER"]
             ELSE [s1 EXCEPT !.current_state = "SNAKE_THINKING"]
    ELSE s

troca(s, perm, ub) ==
    LET dir_opt == search_random(s.body, s.head_pos, CurLevel(s), perm, ub)
    IN  IF dir_opt.has_value
        THEN [s EXCEPT !.next_pos = move(s.head_pos, dir_opt.value)]
        ELSE input_colision(s, FALSE, TRUE)

\* --------------------------------------------- Snake::breadthFirst_search
\* key of the predecessor map `main`
MapKey(level, pos) == pos.row * n_cols(level) + pos.col

MapPut(main, key, val) ==
    [k \in (DOMAIN main) \cup {key} |-> IF k = key THEN val ELSE main[k]]

\* the neighbour loop with the bound 3: the left neighbour is never tried
RECURSIVE bfs_neighbours_three(_, _, _, _, _, _)
bfs_neighbours_three(level, curr, i, fila, visit, main) ==
    IF i >= 3 THEN [fila |-> fila, visit |-> visit, main |-> main, aborted |-> FALSE]
    ELSE LET V == TilePos(SizeAdd(curr.row, drow[i + 1]), SizeAdd(curr.col, dcol[i + 1]))
         IN  IF V.row < n_rows(level) /\ V.col < n_cols(level)
                /\ V \notin visit /\ ~crashed(level, V)
             THEN bfs_neighbours_three(level, curr, i + 1, Append(fila, V), visit \cup {V},
                                       MapPut(main, MapKey(level, V), curr))
             ELSE bfs_neighbours_three(level, curr, i + 1, fila, visit, main)

\* the neighbour loop trying the directions in the order left, down, right, up
RECURSIVE bfs_neighbours_reversed(_, _, _, _, _, _)
bfs_neighbours_reversed(level, curr, i, fila, visit, main) ==
    IF i >= 4 THEN [fila |-> fila, visit |-> visit, main |-> main, aborted |-> FALSE]
    ELSE LET V == TilePos(SizeAdd(curr.row, drow[4 - i]), SizeAdd(curr.col, dcol[4 - i]))
         IN  IF V.row < n_rows(level) /\ V.col < n_cols(level)
                /\ V \notin visit /\ ~crashed(level, V)
             THEN bfs_neighbours_reversed(level, curr, i + 1, Append(fila, V), visit \cup {V},
                                          MapPut(main, MapKey(level, V), curr))
             ELSE bfs_neighbours_reversed(level, curr, i + 1, fila, visit, main)

\* the for loop over the four neighbours of curr, from index i on
RECURSIVE bfs_neighbours(_, _, _, _, _, _)
bfs_neighbours(level, curr, i, fila, visit, main) ==
    IF i >= 4 THEN [fila |-> fila, visit |-> visit, main |-> main, aborted |-> FALSE]
    ELSE LET V == TilePos(SizeAdd(curr.row, drow[i + 1]), SizeAdd(curr.col, dcol[i + 1]))
         IN  IF V.row < n_rows(level) /\ V.col < n_cols(level)
                /\ V \notin visit /\ ~crashed(level, V)
             THEN IF crashed(level, V)
                  THEN [fila |-> Append(fila, V), visit |-> visit \cup {V},
                        main |-> MapPut(main, MapKey(level, V), curr), aborted |-> TRUE]
                  ELSE bfs_neighbours(level, curr, i + 1, Append(fila, V), visit \cup {V},
                                      MapPut(main, MapKey(level, V), curr))
             ELSE bfs_neighbours(level, curr, i + 1, fila, visit, main)

\* the while loop over the queue `fila`
RECURSIVE bfs_loop(_, _, _, _)
bfs_loop(level, fila, visit, main) ==
    IF fila = <<>>
    THEN [found |-> FALSE, food_pos |-> TilePos(0, 0), fila |-> fila, main |-> main,
          aborted |-> FALSE]
    ELSE LET curr == Head(fila)
         IN  IF get_tile_type(level, curr) = "FOOD"
             THEN [found |-> TRUE, food_pos |-> curr, fila |-> Tail(fila), main |-> main,
                   aborted |-> FALSE]
             ELSE LET n == bfs_neighbours(level, curr, 0, Tail(fila), visit, main)
                  IN  IF n.aborted
                      THEN [found |-> FALSE, food_pos |-> TilePos(0, 0), fila |-> n.fila,
                            main |-> n.main, aborted |-> TRUE]
                      ELSE bfs_loop(level, n.fila, n.visit, n.main)

\* the walk back along the predecessors; main[k] of an absent key is TilePos()
RECURSIVE walk_back(_, _, _, _)
walk_back(curr, main, level, start) ==
    LET key == MapKey(level, curr)
        anterior == IF key \in DOMAIN main THEN main[key] ELSE TilePos(0, 0)
    IN  IF anterior.row = start.row /\ anterior.col = start.col THEN curr
        ELSE walk_back(anterior, main, level, start)

\* found_food without the walk back: the food cell itself is the next move
found_food_direct(next_move, achei, food_pos, main, level, start) ==
    IF achei THEN food_pos ELSE start

\* returns the value left in next_move
found_food(next_move, achei, food_pos, main, level, start) ==
    IF achei
    THEN IF MapKey(level, food_pos) \notin DOMAIN main THEN food_pos
         ELSE walk_back(food_pos, main, level, start)
    ELSE start

breadthFirst_search(s, perm, ub) ==
    IF get_states(s) # "SNAKE_THINKING" THEN s
    ELSE LET level == CurLevel(s)
             start == s.head_pos
             s0 == [s EXCEPT !.found_foods = FALSE, !.collision = FALSE]
             res == bfs_loop(level, <<start>>, {start}, <<>>)
         IN  IF res.aborted THEN input_colision(s0, FALSE, s0.collision)
             ELSE LET s1 == [s0 EXCEPT !.found_foods = res.found]
                      s2 == IF res.fila = <<>> THEN troca(s1, perm, ub) ELSE s1
                  IN  IF s2.found_foods
                      THEN LET next_move == found_food(s2.next_pos, s2.found_foods,
                                                       res.food_pos, res.main, level, start)
                               s3 == [s2 EXCEPT !.next_pos = next_move]
                           IN  IF next_move = get_food_loc(level)
                               THEN input_colision(s3, TRUE, s3.collision)
                               ELSE s3
                      ELSE s2

\* ------------------------------------------------- SnazeSimulation (part 2)
snake_thinking(s, perm, ub) ==
    IF s.player_type = "RANDOM" THEN troca(s, perm, ub)
    ELSE breadthFirst_search(s, perm, ub)

\* snake_update with its three steps after the push switchable: pop_always
\* pops the tail after a food too, food_always places food after every move,
\* retag tells whether the second segment is marked SNAKE_BODY
snake_update_variant(s, rnd, pop_always, food_always, retag) ==
    LET level == CurLevel(s)
        comeu == InGrid(level, s.next_pos) /\ get_tile_type(level, s.next_pos) = "FOOD"
    IN  IF s.current_state # "SNAKE_THINKING" THEN s
        ELSE IF crashed(level, s.next_pos) THEN [s EXCEPT !.current_state = "GAME_OVER"]
        ELSE LET l1 == set_tile_type(level, "SNAKE_HEAD", s.next_pos)
                 b1 == <<s.next_pos>> \o s.body
                 tail == b1[Len(b1)]
                 pop == ~comeu \/ pop_always
                 b2 == IF pop THEN SubSeq(b1, 1, Len(b1) - 1) ELSE b1
                 l2a == IF pop THEN set_tile_type(l1, "EMPTY", tail) ELSE l1
                 l2 == IF comeu \/ food_always THEN place_food(l2a, rnd) ELSE l2a
                 l3 == IF retag /\ Len(b2) > 1 THEN set_tile_type(l2, "SNAKE_BODY", b2[2])
                       ELSE l2
             IN  [SetCurLevel(s, l3) EXCEPT !.body = b2, !.head_pos = s.next_pos]

snake_update_pop_always(s, rnd) == snake_update_variant(s, rnd, TRUE, FALSE, TRUE)

snake_update_food_always(s, rnd) == snake_update_variant(s, rnd, FALSE, TRUE, TRUE)

snake_update_no_retag(s, rnd) == snake_update_variant(s, rnd, FALSE, FALSE, FALSE)

\* snake_update taking a life when it rejects the move
snake_update_rejection_costs_life(s, rnd) ==
    IF s.current_state = "SNAKE_THINKING" /\ crashed(CurLevel(s), s.next_pos)
    THEN [s EXCEPT !.current_state = "GAME_OVER", !.current_life = @ - 1]
    ELSE snake_update_variant(s, rnd, FALSE, FALSE, TRUE)

\* comeu reads the tile at next_pos before any check; outside the grid the
\* value read is not used, crashed() being true there
snake_update(s, rnd) ==
    LET level == CurLevel(s)
        comeu == InGrid(level, s.next_pos) /\ get_tile_type(level, s.next_pos) = "FOOD"
    IN  IF s.current_state # "SNAKE_THINKING" THEN s
        ELSE IF crashed(level, s.next_pos) THEN [s EXCEPT !.current_state = "GAME_OVER"]
        ELSE LET l1 == set_tile_type(level, "SNAKE_HEAD", s.next_pos)
                 b1 == <<s.next_pos>> \o s.body
                 tail == b1[Len(b1)]
                 b2 == IF ~comeu THEN SubSeq(b1, 1, Len(b1) - 1) ELSE b1
                 l2 == IF ~comeu THEN set_tile_type(l1, "EMPTY", tail)
                       ELSE place_food(l1, rnd)
                 l3 == IF Len(b2) > 1 THEN set_tile_type(l2, "SNAKE_BODY", b2[2]) ELSE l2
             IN  [SetCurLevel(s, l3) EXCEPT !.body = b2, !.head_pos = s.next_pos]

process_events(s, input, perm, ub) ==
    CASE s.current_state = "START_SCREEN" -> input_process(s, input)
      [] s.current_state = "SNAKE_THINKING" -> snake_thinking(s, perm, ub)
      [] s.current_state = "GAME_RUNNING" -> input_colision(s, s.found_foods, s.collision)
      [] s.current_state = "SNAKE_CRASHED" -> input_process(s, input)
      [] s.current_state = "LEVEL_UP" -> input_process(s, input)
      [] OTHER -> s

\* update keeping the GAME_OVER that snake_update sets on a rejected move
update_keeps_game_over(s, rnd) ==
    CASE s.current_state = "START" -> [s EXCEPT !.current_state = "WELCOME"]
      [] s.current_state = "WELCOME" -> [s EXCEPT !.current_state = "START_SCREEN"]
      [] s.current_state = "SNAKE_THINKING" ->
            LET s1 == snake_update(s, rnd)
            IN  IF s1.current_state = "GAME_OVER" THEN s1
                ELSE [s1 EXCEPT !.current_state = "GAME_RUNNING"]
      [] s.current_state = "GAME_RUNNING" -> s
      [] s.current_state = "LEVEL_UP" -> level_up(s)
      [] OTHER -> s

\* case SNAKE_THINKING has no break: it falls into case GAME_RUNNING, a break
update(s, rnd) ==
    CASE s.current_state = "START" -> [s EXCEPT !.current_state = "WELCOME"]
      [] s.current_state = "WELCOME" -> [s EXCEPT !.current_state = "START_SCREEN"]
      [] s.current_state = "SNAKE_THINKING" ->
            [snake_update(s, rnd) EXCEPT !.current_state = "GAME_RUNNING"]
      [] s.current_state = "GAME_RUNNING" -> s
      [] s.current_state = "LEVEL_UP" -> level_up(s)
      [] OTHER -> s

\* print_maze that only prints
print_maze_keeps_state(s) == s

print_maze(s) == [s EXCEPT !.current_state = "SNAKE_THINKING"]

print_game_won(s) == [s EXCEPT !.exit_status = "EXIT_SUCCESS"]

\* print_game_over ending the process with the success status
print_game_over_success(s) == [s EXCEPT !.exit_status = "EXIT_SUCCESS"]

print_game_over(s) == [s EXCEPT !.exit_status = "EXIT_FAILURE"]

render(s) ==
    CASE s.current_state = "GAME_RUNNING" -> print_maze(s)
      [] s.current_state = "GAME_WON" -> print_game_won(s)
      [] s.current_state = "GAME_OVER" -> print_game_over(s)
      [] OTHER -> s

is_over(s) == s.current_state = "GAME_OVER"

\* one iteration of the loop of main(): input is the line read, perm the
\* shuffle, ub the out-of-bounds reads and rnd the food draw of the iteration
LoopBody(s, input, perm, ub, rnd) ==
    render(update(process_events(s, input, perm, ub), rnd))

\* ------------------------------------------------------------ level files
\* a maze is the block of characters handed to Level::Level
MazeCorridor == << <<"&", " ", " ", " ", " ">>,
                   <<"#", "#", "#", "#", "#">> >>

MazeOpen == << <<" ", " ", " ">>,
               <<" ", "&", " ">>,
               <<"#", "#", "#">> >>

MazeHidden == << <<"#", ".", "#">>,
                 <<"#", "&", "#">>,
                 <<"#", "#", "#">> >>

MazeBoxed == << <<"#", "#", "#">>,
                <<"#", "&", "#">>,
                <<"#", "#", "#">> >>

\* a dead-end corridor of three cells closed by walls on every side
MazeWalled == << <<"#", "#", "#", "#", "#">>,
                 <<"#", "&", " ", " ", "#">>,
                 <<"#", "#", "#", "#", "#">> >>

\* the level files given on the command line, each a sequence of mazes
Files == { <<MazeOpen>>, <<MazeCorridor, MazeCorridor>>, <<MazeHidden>>, <<MazeBoxed>>,
           <<MazeWalled>> }

\* parse_file: one Level per block, each placing its food at construction
RECURSIVE LoadLevels(_)
LoadLevels(file) ==
    IF file = <<>> THEN { <<>> }
    ELSE LET maze == Head(file)
         IN  { <<LevelCtor(maze, rnd)>> \o rest :
                    rnd \in 0..(Len(maze) * Len(maze[1]) - 1), rest \in LoadLevels(Tail(file)) }

\* ------------------------------------------------------------------ state
VARIABLES current_state, levels, body, found_foods, collision, head_pos, next_pos,
          score, n_lives, n_food, player_type, current_level_index, current_life,
          current_food, exit_status

vars == <<current_state, levels, body, found_foods, collision, head_pos, next_pos,
          score, n_lives, n_food, player_type, current_level_index, current_life,
          current_food, exit_status>>

St == [current_state |-> current_state, levels |-> levels, body |-> body,
       found_foods |-> found_foods, collision |-> collision, head_pos |-> head_pos,
       next_pos |-> next_pos, score |-> score, n_lives |-> n_lives, n_food |-> n_food,
       player_type |-> player_type, current_level_index |-> current_level_index,
       current_life |-> current_life, current_food |-> current_food,
       exit_status |-> exit_status]

Commit(t) ==
    /\ current_state' = t.current_state
    /\ levels' = t.levels
    /\ body' = t.body
    /\ found_foods' = t.found_foods
    /\ collision' = t.collision
    /\ head_pos' = t.head_pos
    /\ next_pos' = t.next_pos
    /\ score' = t.score
    /\ n_lives' = t.n_lives
    /\ n_food' = t.n_food
    /\ player_type' = t.player_type
    /\ current_level_index' = t.current_level_index
    /\ current_life' = t.current_life
    /\ current_food' = t.current_food
    /\ exit_status' = t.exit_status

\* the member initializers of SnazeSimulation, then initialize(argc, argv):
\* current_life is initialized from the default n_lives, before --lives is read
initialize(file_levels, lives, food, ptype) ==
    LET spawn == get_spawn_loc(file_levels[1])
    IN  [current_state |-> "START",
         levels |-> [file_levels EXCEPT ![1] = set_tile_type(@, "SNAKE_HEAD", spawn)],
         body |-> <<spawn>>, found_foods |-> FALSE, collision |-> FALSE,
         head_pos |-> spawn, next_pos |-> TilePos(0, 0), score |-> 0,
         n_lives |-> lives, n_food |-> food, player_type |-> ptype,
         current_level_index |-> 0, current_life |-> DefaultLives, current_food |-> 0,
         exit_status |-> "none"]

Init ==
    \E file \in Files, lives \in 1..MaxLives, food \in 1..MaxFood, ptype \in PlayerTypes :
        \E file_levels \in LoadLevels(file) :
            LET t == initialize(file_levels, lives, food, ptype)
            IN  /\ current_state = t.current_state
                /\ levels = t.levels
                /\ body = t.body
                /\ found_foods = t.found_foods
                /\ collision = t.collision
                /\ head_pos = t.head_pos
                /\ next_pos = t.next_pos
                /\ score = t.score
                /\ n_lives = t.n_lives
                /\ n_food = t.n_food
                /\ player_type = t.player_type
                /\ current_level_index = t.current_level_index
                /\ current_life = t.current_life
                /\ current_food = t.current_food
                /\ exit_status = t.exit_status

\* the loop of main() runs while the process has not exited and not is_over()
Running == exit_status = "none" /\ ~is_over(St)

\* raw outputs of the food generator that dist(gen) tells apart, when the
\* update of state s reaches place_food (none otherwise)
Draws(s) ==
    LET level == CurLevel(s)
    IN  IF s.current_state = "SNAKE_THINKING" /\ ~crashed(level, s.next_pos)
           /\ get_tile_type(level, s.next_pos) = "FOOD" /\ Len(empty_spaces(level)) > 1
        THEN 0..(Len(empty_spaces(level)) - 1)
        ELSE {0}

\* out-of-bounds reads exist only for the neighbours outside the grid
UbChoices(s) ==
    {ub \in [Directions -> UbReads] :
        \A d \in Directions : InGrid(CurLevel(s), move(s.head_pos, d)) => ub[d] = "GARBAGE"}

NoUb == [d \in Directions |-> "GARBAGE"]

IdPerm == [i \in 1..4 |-> i - 1]

\* an iteration that neither reads a line nor thinks
PlainTick ==
    /\ Running
    /\ current_state \notin {"START_SCREEN", "SNAKE_CRASHED", "LEVEL_UP", "SNAKE_THINKING"}
    /\ Commit(LoopBody(St, "", IdPerm, NoUb, 0))

\* an iteration whose process_events reads a line of input
InputTick ==
    /\ Running
    /\ current_state \in {"START_SCREEN", "SNAKE_CRASHED", "LEVEL_UP"}
    /\ \E input \in Inputs :
            LET s1 == process_events(St, input, IdPerm, NoUb)
            IN  \E rnd \in Draws(s1) : Commit(render(update(s1, rnd)))

\* the process_events of state s reaches troca: the random player's thinking,
\* or a search that leaves its loop with the queue empty
CallsTroca(s) ==
    /\ s.current_state = "SNAKE_THINKING"
    /\ \/ s.player_type = "RANDOM"
       \/ LET res == bfs_loop(CurLevel(s), <<s.head_pos>>, {s.head_pos}, <<>>)
          IN  ~res.aborted /\ res.fila = <<>>

\* search_random, trying the directions of perm from the k-th on, hands
\* is_valid_position a position outside the grid before it returns
RECURSIVE ReadsOutsideFrom(_, _, _, _, _, _)
ReadsOutsideFrom(k, b, h, level, perm, ub) ==
    /\ k <= 4
    /\ \/ ~InGrid(level, move(h, perm[k]))
       \/ /\ ~is_valid_position(b, move(h, perm[k]), level, ub[perm[k]])
          /\ ReadsOutsideFrom(k + 1, b, h, level, perm, ub)

\* the tick of state s reads m_maze out of bounds
ReadsOutside(s, perm, ub) ==
    CallsTroca(s) /\ ReadsOutsideFrom(1, s.body, s.head_pos, CurLevel(s), perm, ub)

\* the out-of-bounds read faults and the process is killed where it stands
Faulted(s) == [s EXCEPT !.exit_status = "ABORTED"]

\* an iteration whose process_events runs snake_thinking; an out-of-bounds
\* read of is_valid_position either yields a value (ub) or kills the process
ThinkTick ==
    /\ Running
    /\ current_state = "SNAKE_THINKING"
    /\ \E perm \in Perms : \E ub \in UbChoices(St) :
            \/ /\ ReadsOutside(St, perm, ub)
               /\ Commit(Faulted(St))
            \/ LET s1 == process_events(St, "", perm, ub)
               IN  \E rnd \in Draws(s1) : Commit(render(update(s1, rnd)))

Next == PlainTick \/ InputTick \/ ThinkTick

Spec == Init /\ [][Next]_vars

\* ======================================================= checked properties
\* Reference notions the properties are stated with, defined on plain integer
\* coordinates and sets of cells, independently of the code's search.
Free(level, p) == get_tile_type(level, p) \in {"EMPTY", "FOOD"}

Adjacent(a, b) ==
    \/ a.row = b.row /\ (a.col = b.col + 1 \/ b.col = a.col + 1)
    \/ a.col = b.col /\ (a.row = b.row + 1 \/ b.row = a.row + 1)

FoodCells(level) == {p \in CellSet(level) : get_tile_type(level, p) = "FOOD"}

\* length of a shortest path from a cell of `frontier` to `target` whose cells
\* after the first are Free; -1 when there is none
RECURSIVE DistFrom(_, _, _, _, _)
DistFrom(level, frontier, seen, target, k) ==
    IF target \in frontier THEN k
    ELSE LET nxt == {q \in CellSet(level) \ seen :
                        Free(level, q) /\ \E p \in frontier : Adjacent(p, q)}
         IN  IF nxt = {} THEN -1 ELSE DistFrom(level, nxt, seen \cup nxt, target, k + 1)

Dist(level, from, to) == DistFrom(level, {from}, {from}, to, 0)

Thinking == Running /\ current_state = "SNAKE_THINKING"

\* what C1 asks of the next position that breadthFirst_search leaves, for the
\* food cell f at distance d of the head
BfsStepGood(f, d) ==
    \A perm \in Perms : \A ub \in UbChoices(St) :
        LET n == breadthFirst_search(St, perm, ub).next_pos
        IN  /\ InGrid(CurLevel(St), n)
            /\ Adjacent(head_pos, n)
            /\ Dist(CurLevel(St), n, f) = d - 1

\* the food next to the head is the one that completes the level's target,
\* and a further level is loaded
CompletesLevel(d) ==
    d = 1 /\ current_food + 1 = n_food /\ current_level_index + 1 < Len(levels)

\* C1 as stated: whenever the food is reachable from the head through
\* non-blocking cells, breadthFirst_search leaves in next_pos a cell
\* orthogonally adjacent to the head whose shortest-path distance to the food
\* is one less than the head's.
C1_Original ==
    (Thinking /\ player_type = "BACKTRACKING") =>
        \A f \in FoodCells(CurLevel(St)) :
            LET d == Dist(CurLevel(St), head_pos, f)
            IN  d >= 1 => BfsStepGood(f, d)

\* C1 outside the level-completing case: the step is on a shortest path
\* whenever the food is not both adjacent to the head and the one whose
\* count completes the level's target. In that case breadthFirst_search
\* counts the food before any move is committed and ends in level_up, whose
\* respawn leaves the next level's spawn in next_pos.
C1_BfsStepOnShortestPath ==
    (Thinking /\ player_type = "BACKTRACKING") =>
        \A f \in FoodCells(CurLevel(St)) :
            LET d == Dist(CurLevel(St), head_pos, f)
            IN  (d >= 1 /\ ~CompletesLevel(d)) => BfsStepGood(f, d)

\* a thinking state where the food is at least two steps away and two of the
\* head's neighbours are one step closer to it (a tie between shortest paths)
C1_Witness ==
    /\ Thinking /\ player_type = "BACKTRACKING"
    /\ \E f \in FoodCells(CurLevel(St)) :
          /\ Dist(CurLevel(St), head_pos, f) >= 2
          /\ Cardinality({n \in CellSet(CurLevel(St)) :
                            /\ Adjacent(head_pos, n) /\ Free(CurLevel(St), n)
                            /\ Dist(CurLevel(St), n, f) = Dist(CurLevel(St), head_pos, f) - 1}) = 2
          /\ Dist(CurLevel(St), breadthFirst_search(St, IdPerm, NoUb).next_pos, f)
                = Dist(CurLevel(St), head_pos, f) - 1

\* C2 as stated: under the search-based strategy, a thinking tick that starts
\* with the food at distance d >= 1 of the head brings the head exactly one
\* step nearer: onto the food cell when d = 1, and otherwise to distance
\* d - 1 of it, so that the head is on the food cell after exactly d ticks.
C2_Original ==
    [][ (Thinking /\ player_type = "BACKTRACKING") =>
            \A f \in FoodCells(CurLevel(St)) :
                LET d == Dist(CurLevel(St), head_pos, f)
                IN  d >= 1 =>
                        /\ current_level_index' = current_level_index
                        /\ IF d = 1 THEN head_pos' = f
                           ELSE Dist(levels'[current_level_index' + 1], head_pos', f) = d - 1
      ]_vars

\* C2, what the code does: such a tick moves the head one step along a
\* shortest path of the grid it started with, after which the food is at
\* distance at most d - 1 (the freed tail cell may shorten the way); but
\* when the food is adjacent and counting it completes the level's target,
\* the tick ends in level_up (the next level's START_SCREEN, or GAME_WON)
\* and the head is never moved onto the food.
C2_StepTowardsFood ==
    [][ (Thinking /\ player_type = "BACKTRACKING") =>
            \A f \in FoodCells(CurLevel(St)) :
                LET d == Dist(CurLevel(St), head_pos, f)
                IN  /\ (d = 1 /\ current_food + 1 = n_food) =>
                            \/ /\ current_state' = "START_SCREEN"
                               /\ current_level_index' = current_level_index + 1
                               /\ body' = <<get_spawn_loc(levels'[current_level_index' + 1])>>
                            \/ /\ current_state' = "GAME_WON"
                               /\ body' = body /\ head_pos' = head_pos /\ levels' = levels
                    /\ (d = 1 /\ current_food + 1 # n_food) =>
                            /\ current_level_index' = current_level_index
                            /\ head_pos' = f
                            /\ current_state' = "SNAKE_THINKING"
                    /\ d > 1 =>
                            /\ current_level_index' = current_level_index
                            /\ Adjacent(head_pos, head_pos')
                            /\ Dist(CurLevel(St), head_pos', f) = d - 1
                            /\ Dist(levels'[current_level_index' + 1], head_pos', f) \in 0..(d - 1)
                            /\ current_state' = "SNAKE_THINKING"
      ]_vars

\* the corridor, searched: the head has walked to its far end (0,4) and eaten
\* there the first food of the level
C2_Witness ==
    /\ player_type = "BACKTRACKING"
    /\ n_rows(CurLevel(St)) = 2 /\ n_cols(CurLevel(St)) = 5
    /\ current_level_index = 0
    /\ head_pos = TilePos(0, 4)
    /\ body = <<TilePos(0, 4), TilePos(0, 3)>>
    /\ current_food = 1 /\ score = 20
    /\ current_life = DefaultLives

\* C3: whenever search_random returns a direction, the cell one step from the
\* head in that direction is inside the grid, is Empty or Food, and is no
\* segment of the body.
C3_SearchRandomSafe ==
    Thinking =>
        \A perm \in Perms : \A ub \in UbChoices(St) :
            LET r == search_random(body, head_pos, CurLevel(St), perm, ub)
                n == move(head_pos, r.value)
            IN  r.has_value =>
                    /\ InGrid(CurLevel(St), n)
                    /\ Free(CurLevel(St), n)
                    /\ \A k \in DOMAIN body : body[k] # n

\* none of the head's four neighbours is an Empty or Food cell of the grid
BoxedIn ==
    \A d \in Directions :
        LET n == move(head_pos, d)
        IN  ~InGrid(CurLevel(St), n) \/ ~Free(CurLevel(St), n)

\* C4: in a thinking tick that starts with the head boxed in, the fallback
\* fails and the tick costs exactly one life and commits no movement.
C4_BoxedInCostsLife ==
    (Thinking /\ BoxedIn) =>
        \A perm \in Perms : \A ub \in UbChoices(St) :
            LET t == LoopBody(St, "", perm, ub, 0)
            IN  /\ t.current_life = current_life - 1
                /\ t.current_state \in {"SNAKE_CRASHED", "GAME_OVER"}
                /\ t.body = body /\ t.head_pos = head_pos /\ t.levels = levels

\* C5: crashed(pos) is true exactly when pos is outside the grid, a wrapped
\* coordinate included, or its tile is neither Empty nor Food.  The positions
\* tried are the cells of every level and their four neighbours, computed as
\* the code computes them (move) and judged on their integer coordinates.
C5_CrashedIffBlocking ==
    \A i \in DOMAIN levels :
        \A c \in CellSet(levels[i]) :
            /\ crashed(levels[i], c) <=> (levels[i].m_maze[c.row + 1][c.col + 1] \notin {"EMPTY", "FOOD"})
            /\ \A d \in Directions :
                  LET ir == c.row + drow[d + 1]
                      ic == c.col + dcol[d + 1]
                      outside == ir < 0 \/ ir >= Len(levels[i].m_maze)
                                    \/ ic < 0 \/ ic >= Len(levels[i].m_maze[1])
                  IN  crashed(levels[i], move(c, d)) <=>
                        (outside \/ levels[i].m_maze[ir + 1][ic + 1] \notin {"EMPTY", "FOOD"})

\* the head stands in row 0 next to a hidden wall: the cell above it wraps
\* around and crashes, the hidden wall crashes as a wall does
C5_Witness ==
    /\ Thinking
    /\ \E d \in Directions :
          /\ InGrid(CurLevel(St), move(head_pos, d))
          /\ get_tile_type(CurLevel(St), move(head_pos, d)) = "INV_WALL"
          /\ crashed(CurLevel(St), move(head_pos, d))
    /\ move(TilePos(0, 1), 0).row = SizeMod - 1
    /\ crashed(CurLevel(St), move(TilePos(0, 1), 0))

Tile(level, p) == level.m_maze[p.row + 1][p.col + 1]

\* what C6 asks of one call of place_food on `level`
PlaceFoodContract(level) ==
    \A rnd \in 0..(n_rows(level) * n_cols(level)) :
        LET after == place_food(level, rnd)
            empties == {p \in CellSet(level) : Tile(level, p) = "EMPTY"}
        IN  IF empties = {} THEN after = level
            ELSE \E c \in empties :
                    /\ Tile(after, c) = "FOOD"
                    /\ after.m_food_loc = c
                    /\ after.m_spawn_loc = level.m_spawn_loc
                    /\ \A q \in CellSet(level) \ {c} : Tile(after, q) = Tile(level, q)

\* the grid on which snake_update calls place_food when the head is about to
\* land on the food: the head tile is already written at next_pos
AtPlaceFoodCall(s) == set_tile_type(CurLevel(s), "SNAKE_HEAD", s.next_pos)

\* C6: place_food turns one cell that is Empty at the moment of the call into
\* Food and records it as the food location, changing nothing else; with no
\* Empty cell it leaves the grid and the food location as they are.  Checked
\* on every level of every reachable state, on the grid snake_update hands to
\* place_food, and on the step that eats: the new Food tile was Empty before.
C6_PlaceFoodOnEmptyOnly ==
    /\ \A i \in DOMAIN levels : PlaceFoodContract(levels[i])
    /\ \A perm \in Perms : \A ub \in UbChoices(St) :
          LET s1 == process_events(St, "", perm, ub)
          IN  (Thinking /\ s1.current_state = "SNAKE_THINKING"
                 /\ ~crashed(CurLevel(s1), s1.next_pos)
                 /\ Tile(CurLevel(s1), s1.next_pos) = "FOOD") =>
                    /\ PlaceFoodContract(AtPlaceFoodCall(s1))
                    /\ \A rnd \in Draws(s1) :
                          LET t == update(s1, rnd)
                          IN  \A p \in FoodCells(CurLevel(t)) :
                                 /\ Tile(CurLevel(s1), p) = "EMPTY"
                                 /\ get_food_loc(CurLevel(t)) = p

\* the food has been eaten and placed again: the body has grown and the one
\* Food tile of the grid is where m_food_loc says
C6_Witness ==
    /\ Len(body) >= 2
    /\ FoodCells(CurLevel(St)) = {get_food_loc(CurLevel(St))}
    /\ \E p \in CellSet(CurLevel(St)) : Tile(CurLevel(St), p) = "EMPTY"

\* C7: the active level's grid never holds more than one Food tile.
C7_AtMostOneFood == Cardinality(FoodCells(CurLevel(St))) <= 1

\* after a food was eaten, a life lost and the snake respawned, on a grid that
\* holds its one Food tile
C7_Witness ==
    /\ Cardinality(FoodCells(CurLevel(St))) = 1
    /\ current_life < DefaultLives
    /\ Len(body) >= 2

\* C8: the grid has exactly one AgentHead tile, at the front of the body,
\* which is head_pos; the other segments are on AgentBody tiles; and no tile
\* off the body is AgentHead or AgentBody.
C8_SnakeMirrorsGrid ==
    /\ Len(body) >= 1
    /\ body[1] = head_pos
    /\ \A k \in DOMAIN body : InGrid(CurLevel(St), body[k])
    /\ \A p \in CellSet(CurLevel(St)) :
          /\ Tile(CurLevel(St), p) = "SNAKE_HEAD" <=> p = body[1]
          /\ Tile(CurLevel(St), p) = "SNAKE_BODY" <=> (\E k \in 2..Len(body) : body[k] = p)

\* a snake of three segments on its grid
C8_Witness ==
    /\ Len(body) >= 3
    /\ Tile(CurLevel(St), body[1]) = "SNAKE_HEAD"
    /\ Tile(CurLevel(St), body[3]) = "SNAKE_BODY"

\* a tick in which snake_update may commit a move: the tick thinks, or leaves
\* START_SCREEN; the move is committed when the head has changed place on
\* the same level
CommitTick == Running /\ current_state \in {"SNAKE_THINKING", "START_SCREEN"}

\* C9: a committed move onto Food makes the body one segment longer, a
\* committed move onto any other cell leaves its length as it was, and a tick
\* that commits nothing on the level leaves the body as it was; so the length
\* is 1 + the number of committed moves onto Food since the last reset.
C9_GrowsByOneOnFood ==
    [][ (CommitTick /\ current_level_index' = current_level_index) =>
            IF head_pos' # head_pos
            THEN Len(body') = Len(body)
                    + (IF Tile(CurLevel(St), head_pos') = "FOOD" THEN 1 ELSE 0)
            ELSE body' = body
      ]_vars

\* two foods eaten by the random player since the last reset
C9_Witness ==
    /\ player_type = "RANDOM"
    /\ Len(body) = 3
    /\ current_life = DefaultLives

\* C10: at the end of every tick the body is one segment longer than the
\* number of foods counted on this level.
C10_LengthIsFoodPlusOne == Len(body) = current_food + 1

\* the tick commits a move of the head onto a cell that held Food
LandsOnFood ==
    /\ CommitTick
    /\ current_level_index' = current_level_index
    /\ head_pos' # head_pos
    /\ Tile(CurLevel(St), head_pos') = "FOOD"

\* C11: under either strategy a tick whose committed move lands on Food adds
\* exactly one to the food-eaten counter and updates the score in that tick,
\* and the counter grows in no other tick, the food event that completes the
\* level's target apart.
C11_CountsFoodOnLanding ==
    [][ /\ LandsOnFood =>
                /\ current_food' = current_food + 1
                /\ score' = score + 20 * current_food'
        /\ (current_food' > current_food /\ ~LandsOnFood) => current_food + 1 = n_food
      ]_vars

\* 1 + 2 + ... + k
Tri(k) == (k * (k + 1)) \div 2

\* C12: a food event, the call input_colision(true, ...), adds 20 times the
\* count it has just incremented, once; so the score is 20 * (1 + ... + k)
\* above its value at the start of the level after the k-th food, every
\* completed level having brought 20 * (1 + ... + n_food); no tick lowers
\* the score, and a tick without a food event (a respawn among them) leaves
\* it as it was, as does the level advance itself.
C12_ScoreIsTriangular ==
    [][ /\ score' = 20 * (current_level_index' * Tri(n_food) + Tri(current_food'))
        /\ score' >= score
        /\ (current_level_index' = current_level_index /\ current_food' = current_food)
                => score' = score
        /\ (current_level_index' = current_level_index /\ current_food' # current_food)
                => (current_food' = current_food + 1 /\ score' = score + 20 * current_food')
        /\ current_level_index' # current_level_index
                => (current_food + 1 = n_food /\ score' = score + 20 * n_food)
      ]_vars

\* the second level is being played with the first one's score, a second
\* food event of that level having added 40 to the 20 of the first
C12_Witness ==
    /\ n_food = 2
    /\ current_level_index = 1
    /\ current_food = 0
    /\ score = 60

\* C13: when the movement commit finds the proposed next coordinate
\* blocking, the tick ends in GameOver with lives, body and grid unchanged.
C13_BlockedCommitIsGameOver ==
    Running =>
        \A input \in Inputs : \A perm \in Perms : \A ub \in UbChoices(St) :
            LET s1 == process_events(St, input, perm, ub)
            IN  (s1.current_state = "SNAKE_THINKING" /\ crashed(CurLevel(s1), s1.next_pos)) =>
                    LET t == render(update(s1, 0))
                    IN  /\ t.current_state = "GAME_OVER"
                        /\ t.current_life = s1.current_life
                        /\ t.body = s1.body
                        /\ t.levels = s1.levels

\* C14: a collision event handled by input_colision (collision true, food
\* false) takes exactly one life and then sets SnakeCrashed if lives remain
\* and GameOver if none does; score and food-eaten count are left alone.
\* The event is raised by the thinking step when search_random finds no
\* direction; the whole process_events of that tick is checked.
C14_CollisionCostsOneLife ==
    Thinking =>
        \A perm \in Perms : \A ub \in UbChoices(St) :
            ~search_random(body, head_pos, CurLevel(St), perm, ub).has_value =>
                LET t == process_events(St, "", perm, ub)
                    h == input_colision(St, FALSE, TRUE)
                IN  /\ t.current_life = current_life - 1
                    /\ t.current_state =
                            (IF current_life - 1 > 0 THEN "SNAKE_CRASHED" ELSE "GAME_OVER")
                    /\ t.score = score /\ t.current_food = current_food
                    /\ h.current_life = t.current_life /\ h.current_state = t.current_state
                    /\ h.score = score /\ h.current_food = current_food

\* the collision that took the last life: GameOver, and the process has
\* exited with failure
C14_Witness ==
    /\ current_state = "GAME_OVER"
    /\ current_life = 0
    /\ exit_status = "EXIT_FAILURE"

\* C15: with L lives configured by --lives, a collision leaves the state
\* SnakeCrashed only while fewer than L lives have been lost, the L-th
\* collision giving GameOver; with L = 1 the state is never SnakeCrashed.
C15_ConfiguredLivesDecide ==
    current_state = "SNAKE_CRASHED" => (current_life > 0 /\ current_life < n_lives)

\* the food event of this tick brings the count to the level's target: the
\* search-based player thinks with the food next to the head and one food
\* missing
ReachesTarget ==
    /\ Thinking /\ player_type = "BACKTRACKING"
    /\ current_food + 1 = n_food
    /\ \E f \in FoodCells(CurLevel(St)) : Dist(CurLevel(St), head_pos, f) = 1

\* C16: when the count reaches the target and a further level exists, the
\* tick, unless the process is killed in it, makes the level index grow by
\* exactly one, the food-eaten counter is 0, the agent
\* is one segment on the new level's spawn (head_pos and next_pos too, the
\* spawn tile AgentHead), lives are unchanged and the score is what the food
\* event made it (level_up itself changes neither).
C16_LevelAdvanceResets ==
    [][ /\ (ReachesTarget /\ current_level_index + 1 < Len(levels)
                /\ exit_status' # "ABORTED")
                => current_level_index' = current_level_index + 1
        /\ current_level_index' # current_level_index =>
                LET new == levels'[current_level_index' + 1]
                    spawn == get_spawn_loc(new)
                IN  /\ ReachesTarget
                    /\ current_level_index' = current_level_index + 1
                    /\ current_food' = 0
                    /\ body' = <<spawn>> /\ head_pos' = spawn /\ next_pos' = spawn
                    /\ Tile(new, spawn) = "SNAKE_HEAD"
                    /\ current_life' = current_life
                    /\ score' = score + 20 * n_food
                    /\ level_up(St).score = score
                    /\ level_up(St).current_life = current_life
      ]_vars

\* the second level just entered: StartScreen, the counter at 0, one segment
\* on the spawn, and the score of the first level kept
C16_Witness ==
    /\ current_level_index = 1
    /\ current_state = "START_SCREEN"
    /\ current_food = 0
    /\ body = <<get_spawn_loc(CurLevel(St))>>
    /\ score = 20 * Tri(n_food)

\* C17: the count reaches the target on the last level loaded exactly when
\* the state is GameWon; GameWon is never the state while a level remains
\* unplayed, and the count never passes the target.
C17_WonOnLastLevelOnly ==
    /\ current_food <= n_food
    /\ current_state = "GAME_WON" <=> current_food = n_food
    /\ current_state = "GAME_WON" => current_level_index + 1 = Len(levels)

\* food target 1 and a single level: the first food event has won the game
C17_Witness ==
    /\ n_food = 1 /\ Len(levels) = 1
    /\ current_state = "GAME_WON"
    /\ current_food = 1 /\ score = 20
    /\ exit_status = "EXIT_SUCCESS"

C19_Original ==
    [][ (Thinking /\ current_level_index' = current_level_index /\ head_pos' # head_pos)
            => current_state' = "GAME_RUNNING" ]_vars

\* C19 (amended): such a tick passes through GameRunning inside update() and
\* ends in SnakeThinking, set by print_maze when render() draws the maze; no
\* tick ends, hence none begins, in GameRunning, so process_events never
\* evaluates the flags through input_colision.
C19_ThinkingTickEndsThinking ==
    [][ /\ current_state' # "GAME_RUNNING"
        /\ (Thinking /\ current_level_index' = current_level_index /\ head_pos' # head_pos)
                => current_state' = "SNAKE_THINKING"
        /\ Thinking =>
                LET s1 == process_events(St, "", IdPerm, NoUb)
                IN  s1.current_state = "SNAKE_THINKING" =>
                        /\ update(s1, 0).current_state = "GAME_RUNNING"
                        /\ render(update(s1, 0)).current_state = "SNAKE_THINKING"
      ]_vars

\* the search-based player has walked two cells of the corridor, thinking
\* again after each move
C19_Witness ==
    /\ player_type = "BACKTRACKING"
    /\ n_cols(CurLevel(St)) = 5
    /\ body = <<TilePos(0, 2)>>
    /\ current_state = "SNAKE_THINKING"
    /\ current_food = 0

\* C20: in SnakeCrashed an empty input line respawns the agent: the body is
\* one segment on the level's spawn, head_pos = next_pos = spawn, the grid
\* has no AgentBody tile and no AgentHead tile but the spawn, the collision
\* flag is clear, lives, score, food-eaten count and level index are as they
\* were, and the state is SnakeThinking, lives remaining whenever the state
\* is SnakeCrashed.  Any other line changes nothing.
C20_RespawnOnEnter ==
    [][ (Running /\ current_state = "SNAKE_CRASHED") =>
            LET level == levels'[current_level_index' + 1]
                spawn == get_spawn_loc(CurLevel(St))
                h == input_process(St, "")
            IN  /\ current_life > 0
                /\ input_process(St, "x") = St
                /\ h.current_state = "SNAKE_THINKING"
                /\ h.body = <<spawn>> /\ h.head_pos = spawn /\ h.next_pos = spawn
                /\ h.levels = levels' /\ h.collision = FALSE
                /\ body' = <<spawn>> /\ head_pos' = spawn /\ next_pos' = spawn
                /\ \A p \in CellSet(level) :
                      /\ Tile(level, p) # "SNAKE_BODY"
                      /\ Tile(level, p) = "SNAKE_HEAD" <=> p = spawn
                /\ collision' = FALSE
                /\ current_life' = current_life /\ score' = score
                /\ current_food' = current_food
                /\ current_level_index' = current_level_index
                /\ current_state' = "SNAKE_THINKING"
      ]_vars

\* a respawn on the open level, where only a snake of several segments can
\* crash: one segment on the spawn, a life lost, thinking again
C20_Witness ==
    /\ n_cols(CurLevel(St)) = 3
    /\ Tile(CurLevel(St), TilePos(0, 0)) \notin {"WALL", "INV_WALL"}
    /\ Tile(CurLevel(St), TilePos(0, 1)) \notin {"WALL", "INV_WALL"}
    /\ current_life < DefaultLives
    /\ current_state = "SNAKE_THINKING"
    /\ body = <<get_spawn_loc(CurLevel(St))>>
    /\ head_pos = body[1] /\ next_pos = body[1]

\* the tick leaves grid, body, lives, score, food-eaten count and level index
\* as they were
GameUnchanged ==
    /\ levels' = levels /\ body' = body /\ head_pos' = head_pos
    /\ current_life' = current_life /\ score' = score
    /\ current_food' = current_food
    /\ current_level_index' = current_level_index

\* C21: the first tick takes Start to Welcome and the second Welcome to
\* StartScreen, whatever the input; StartScreen is left, for SnakeThinking,
\* only by a tick that reads an empty line; and the ticks before that one
\* change nothing of the game.
C21_StartupSequence ==
    [][ /\ (Running /\ current_state = "START") =>
                /\ current_state' = "WELCOME" /\ GameUnchanged
                /\ \A input \in Inputs :
                      LoopBody(St, input, IdPerm, NoUb, 0).current_state = "WELCOME"
        /\ (Running /\ current_state = "WELCOME") =>
                /\ current_state' = "START_SCREEN" /\ GameUnchanged
                /\ \A input \in Inputs :
                      LoopBody(St, input, IdPerm, NoUb, 0).current_state = "START_SCREEN"
        /\ (Running /\ current_state = "START_SCREEN") =>
                /\ current_state' = "SNAKE_THINKING"
                /\ LoopBody(St, "x", IdPerm, NoUb, 0) = St
                /\ process_events(St, "", IdPerm, NoUb).current_state = "SNAKE_THINKING"
      ]_vars

\* the first StartScreen, two ticks after the start, nothing played yet
C21_Witness ==
    /\ current_state = "START_SCREEN"
    /\ current_level_index = 0
    /\ body = <<get_spawn_loc(CurLevel(St))>> /\ head_pos = body[1]
    /\ next_pos = TilePos(0, 0)
    /\ score = 0 /\ current_food = 0 /\ current_life = DefaultLives
    /\ n_rows(CurLevel(St)) = 2


C23_OnlyTerminalStatesEndLoop ==
    /\ current_state \in {"GAME_WON", "GAME_OVER"} => ~Running
    /\ ~Running => current_state \in {"GAME_WON", "GAME_OVER"}


\* C24: a call of breadthFirst_search leaves the grid tiles, the body, the
\* head position, the lives, the score, the food-eaten count, the level index
\* and the controller's state as they were before the call.
C24_SearchOnlyProposes ==
    (Thinking /\ player_type = "BACKTRACKING") =>
        \A perm \in Perms : \A ub \in UbChoices(St) :
            LET t == breadthFirst_search(St, perm, ub)
            IN  /\ t.levels = levels
                /\ t.body = body /\ t.head_pos = head_pos
                /\ t.current_life = current_life
                /\ t.score = score
                /\ t.current_food = current_food
                /\ t.current_level_index = current_level_index
                /\ t.current_state = current_state


OnShortestPath(f, d) ==
    {dir \in Directions :
        /\ InGrid(CurLevel(St), move(head_pos, dir))
        /\ Free(CurLevel(St), move(head_pos, dir))
        /\ Dist(CurLevel(St), move(head_pos, dir), f) = d - 1}

\* the first of a non-empty set of directions in the order up, right, down, left
FirstDirection(dirs) == CHOOSE dir \in dirs : \A e \in dirs : dir <= e

\* C26: when several neighbours of the head lie on a shortest path to the
\* food, breadthFirst_search leaves in next_pos the one that comes first in
\* the order up, right, down, left; the result is the same for every shuffle
\* and every out-of-bounds read, so two runs on the same grid and head agree.
C26_TieBreakIsFirstInOrder ==
    (Thinking /\ player_type = "BACKTRACKING") =>
        \A f \in FoodCells(CurLevel(St)) :
            LET d == Dist(CurLevel(St), head_pos, f)
            IN  (d >= 2 /\ Cardinality(OnShortestPath(f, d)) >= 2) =>
                    \A perm \in Perms : \A ub \in UbChoices(St) :
                        breadthFirst_search(St, perm, ub).next_pos
                            = move(head_pos, FirstDirection(OnShortestPath(f, d)))

\* a thinking state on the top row where the right and the down
\* neighbours both lie on a shortest path and the search proposes the right
C26_Witness ==
    /\ Thinking /\ player_type = "BACKTRACKING"
    /\ \E f \in FoodCells(CurLevel(St)) :
          /\ Dist(CurLevel(St), head_pos, f) = 2
          /\ OnShortestPath(f, 2) = {1, 2}
          /\ breadthFirst_search(St, IdPerm, NoUb).next_pos = move(head_pos, 1)


\* the outcome of the search loop of a thinking state
SearchLoop == bfs_loop(CurLevel(St), <<head_pos>>, {head_pos}, <<>>)

\* the step that the walk back from the food found by the search loop gives
BfsStep ==
    found_food(next_pos, TRUE, SearchLoop.food_pos, SearchLoop.main, CurLevel(St), head_pos)

\* C27: the fallback acts only on search exhaustion: a tick whose search
\* finds the food, the case where the food is the last cell dequeued and the
\* queue is left empty included, commits the step of the search as the new
\* head position, loses no life and ends in no crashed or game-over state.
C27_FallbackOnlyOnExhaustion ==
    [][ (Thinking /\ player_type = "BACKTRACKING" /\ SearchLoop.found) =>
            /\ head_pos' = BfsStep
            /\ current_life' = current_life
            /\ current_state' \notin {"SNAKE_CRASHED", "GAME_OVER"}
      ]_vars


\* C28: a committed movement takes the head to a cell orthogonally adjacent
\* to its previous position, computed by the thinking of the same tick; the
\* tick that leaves StartScreen does not move the head.
C28_MovesAreAdjacentSteps ==
    [][ /\ (Running /\ current_state = "START_SCREEN") =>
                head_pos' = head_pos /\ body' = body
        /\ (Thinking /\ current_state' = "SNAKE_THINKING" /\ head_pos' # head_pos) =>
                /\ Adjacent(head_pos, head_pos')
                /\ \E perm \in Perms : \E ub \in UbChoices(St) :
                      head_pos' = snake_thinking(St, perm, ub).next_pos
      ]_vars


\* the cell recorded as the food location of level is its one Food tile
FoodOk(level) == FoodCells(level) = {get_food_loc(level)}

\* snake_update, the one caller of place_food after construction, runs in the
\* ticks that start in these states
MayPlaceFood == current_state \in {"SNAKE_THINKING", "START_SCREEN"}

\* C29: the recorded food location is the grid's one Food tile at the end of
\* every tick, provided an Empty cell exists for the placement the tick may
\* make: a tick on a level keeps that, and the tile that was Food stays Food
\* unless the head moved onto it; a respawn at the spawn cell does not
\* overwrite it.
C29_FoodTileKept ==
    [][ (/\ Running /\ exit_status' # "ABORTED"
         /\ current_level_index' = current_level_index
         /\ FoodOk(CurLevel(St))
         /\ MayPlaceFood =>
                \E p \in CellSet(CurLevel(St)) : Tile(CurLevel(St), p) = "EMPTY") =>
            LET f == get_food_loc(CurLevel(St))
                after == levels'[current_level_index' + 1]
            IN  /\ FoodOk(after)
                /\ Tile(after, f) # "FOOD" => (head_pos' = f /\ current_state # "SNAKE_CRASHED")
      ]_vars


\* C30: the lives counter changes only by losing one life in a thinking tick
\* whose fallback found no valid direction; no other tick, whether it expands
\* the search, commits or rejects a move, eats or reads input, changes it.
C30_LivesLostOnlyInFallback ==
    [][ current_life' # current_life =>
            /\ current_life' = current_life - 1
            /\ Thinking /\ CallsTroca(St)
            /\ \E perm \in Perms : \E ub \in UbChoices(St) :
                  ~search_random(body, head_pos, CurLevel(St), perm, ub).has_value
            /\ head_pos' = head_pos /\ body' = body
      ]_vars

\* the search-based player, grown to two segments, has just lost its first
\* life at a dead end
C30_Witness ==
    /\ current_state = "SNAKE_CRASHED"
    /\ player_type = "BACKTRACKING"
    /\ current_life = DefaultLives - 1
    /\ Len(body) = 2
    /\ \A d \in Directions : crashed(CurLevel(St), move(head_pos, d))


TickIsFixedPoint ==
    \A perm \in Perms : \A ub \in UbChoices(St) :
        /\ ~ReadsOutside(St, perm, ub)
        /\ LET s1 == process_events(St, "", perm, ub)
           IN  \A rnd \in Draws(s1) : render(update(s1, rnd)) = St

\* C32: with every line read empty and the ticks going on, the run reaches
\* GameWon or GameOver under either strategy: it cannot tick forever in
\* SnakeThinking without eating or losing a life, so no thinking state is one
\* that every tick leaves exactly as it found it.
C32_NoEndlessThinking == Thinking => ~TickIsFixedPoint

====
